---- MODULE Spec2Model ----
(***************************************************************************)
(* Model of pkg/console/operator/sync_v400.go: the console operator's      *)
(* sync loop.  One pass of sync_v400 walks Route, Service, ConfigMap,      *)
(* Secret, OAuthClient, Deployment against the cluster's API server and    *)
(* returns (consoleConfig, toUpdate, err).                                 *)
(***************************************************************************)
EXTENDS Naturals, Sequences, FiniteSets

\* ------------------------------------------------------------------ bounds

\* Resource versions are opaque tokens compared for equality only; the API
\* server hands out a token not in use on every write.
MaxRV == 3

\* How many passes of a bootstrap are followed.
MaxBoot == 4

\* How many times the world outside the operator touches the store or the
\* Console resource in one run.
MaxEdits == 1

Hosts == {"h1", "h2"}
SecretStrings == {"s1", "s2"}
Versions == {"4.0", "4.1"}

\* How one Apply* call (a get followed by a create or an update) can fail.
ApplyFail == {"ok", "get", "write"}

\* ------------------------------------------------------------------ errors

Err(kind, cause) == [kind |-> kind, cause |-> cause]

Nil == Err("nil", "nil")

\* any API-server failure that is not a not-found
ErrBackend == Err("backend", "nil")

ErrNotFound == Err("notfound", "nil")

IsNotFound(err) == err.kind = "notfound"

\* errors.New("Waiting on Route.Spec.Host")
ErrWaitingOnHost == Err("waiting on route host", "nil")

\* errors.New("oauth client for console does not exist.")
ErrNoOAuthClient == Err("oauth client does not exist", "nil")

\* fmt.Errorf("secret not found, creating new secret, create error = %v", secErr)
ErrSecretCreated(secErr) == Err("secret not found, creating", secErr.kind)

\* fmt.Errorf("deployment not found, creating new deployment, create error = %v", createdErr)
ErrDeploymentCreated(createdErr) == Err("deployment not found, creating", createdErr.kind)

\* ------------------------------------------------------------------ objects
\* exists = FALSE is the absent resource in the store, and nil as a Go value.

NoRoute == [exists |-> FALSE, host |-> ""]

NoService == [exists |-> FALSE, version |-> ""]

NoConfigMap == [exists |-> FALSE, version |-> "", host |-> "", rv |-> 0]

NoSecret == [exists |-> FALSE, value |-> "", rv |-> 0]

NoOAuthClient == [exists |-> FALSE, host |-> "", secret |-> ""]

NoDeployment == [exists |-> FALSE, version |-> "", cmVersion |-> 0, secVersion |-> 0, forced |-> FALSE]

\* What a step hands back: the object, the changed flag, the error, the
\* resource as the store holds it afterwards, and what was called on the way.
Result(obj, changed, err, store, wrote, gen) ==
    [obj |-> obj, changed |-> changed, err |-> err, store |-> store, wrote |-> wrote, gen |-> gen]

\* The lowest token the API server has not handed out among those still held.
FreshRV(held) == CHOOSE v \in 1..MaxRV : v \notin held /\ \A w \in 1..MaxRV : w \notin held => v <= w

\* ------------------------------------------------- subresource constructors

\* routesub.DefaultRoute: the route as the operator asks for it, host left to the server
DefaultRoute(consoleConfig) == [exists |-> TRUE, host |-> ""]

DefaultService(consoleConfig) == [exists |-> TRUE, version |-> consoleConfig]

\* configmapsub.DefaultConfigMap: content is a function of the console config and the route's host
DefaultConfigMap(consoleConfig, rt) ==
    [exists |-> TRUE, version |-> consoleConfig, host |-> rt.host, rv |-> 0]

DefaultSecret(consoleConfig, randomBits) == [exists |-> TRUE, value |-> randomBits, rv |-> 0]

\* deploymentsub.DefaultDeployment: records the versions of the configmap and secret it was built from
DefaultDeployment(consoleConfig, cm, sec) ==
    [exists |-> TRUE, version |-> consoleConfig, cmVersion |-> cm.rv, secVersion |-> sec.rv, forced |-> FALSE]

\* secretsub.GetSecretString
GetSecretString(sec) == sec.value

\* oauthsub.RegisterConsoleToOAuthClient: redirect URI from the route's host, secret from the secret
RegisterConsoleToOAuthClient(client, rt, secretString) ==
    [client EXCEPT !.host = rt.host, !.secret = secretString]

\* deploymentsub.ResourceVersionsChanged
ResourceVersionsChanged(existing, cm, sec) ==
    existing.cmVersion # cm.rv \/ existing.secVersion # sec.rv

\* deploymentsub.UpdateResourceVersions
UpdateResourceVersions(existing, cm, sec) ==
    [existing EXCEPT !.cmVersion = cm.rv, !.secVersion = sec.rv]

\* --------------------------------------------------------- API server calls

\* client.Get: on an error the typed client hands back the zero object
Get(stored, zero, fail) ==
    IF fail THEN [obj |-> zero, err |-> ErrBackend]
    ELSE IF ~stored.exists THEN [obj |-> zero, err |-> ErrNotFound]
    ELSE [obj |-> stored, err |-> Nil]

\* routesub.GetOrCreate: get the route, create it when it is not found.  The
\* server may or may not have allocated the host when the create returns.
GetOrCreate(route, required, getFail, createFail, allocated) ==
    LET got == Get(route, NoRoute, getFail) IN
    IF IsNotFound(got.err)
    THEN IF createFail
         THEN Result(NoRoute, FALSE, ErrBackend, route, "none", FALSE)
         ELSE LET made == [required EXCEPT !.host = allocated] IN
              Result(made, TRUE, Nil, made, "create", FALSE)
    ELSE IF got.err # Nil
    THEN Result(NoRoute, FALSE, got.err, route, "none", FALSE)
    ELSE Result(got.obj, FALSE, Nil, route, "none", FALSE)

\* resourceapply.ApplyService
ApplyService(service, required, fail) ==
    LET got == Get(service, NoService, fail = "get") IN
    IF IsNotFound(got.err)
    THEN IF fail = "write"
         THEN Result(NoService, TRUE, ErrBackend, service, "none", FALSE)
         ELSE Result(required, TRUE, Nil, required, "create", FALSE)
    ELSE IF got.err # Nil
    THEN Result(NoService, FALSE, got.err, service, "none", FALSE)
    ELSE IF got.obj.version = required.version
    THEN Result(got.obj, FALSE, Nil, service, "none", FALSE)
    ELSE IF fail = "write"
    THEN Result(NoService, TRUE, ErrBackend, service, "none", FALSE)
    ELSE Result(required, TRUE, Nil, required, "update", FALSE)

\* resourceapply.ApplyConfigMap; rv is the version the server gives a written object
ApplyConfigMap(configmap, required, fail, rv) ==
    LET got == Get(configmap, NoConfigMap, fail = "get")
        made == [required EXCEPT !.rv = rv]
    IN
    IF IsNotFound(got.err)
    THEN IF fail = "write"
         THEN Result(NoConfigMap, TRUE, ErrBackend, configmap, "none", FALSE)
         ELSE Result(made, TRUE, Nil, made, "create", FALSE)
    ELSE IF got.err # Nil
    THEN Result(NoConfigMap, FALSE, got.err, configmap, "none", FALSE)
    ELSE IF got.obj.version = required.version /\ got.obj.host = required.host
    THEN Result(got.obj, FALSE, Nil, configmap, "none", FALSE)
    ELSE IF fail = "write"
    THEN Result(NoConfigMap, TRUE, ErrBackend, configmap, "none", FALSE)
    ELSE Result(made, TRUE, Nil, made, "update", FALSE)

\* resourceapply.ApplySecret
ApplySecret(secret, required, fail, rv) ==
    LET got == Get(secret, NoSecret, fail = "get")
        made == [required EXCEPT !.rv = rv]
    IN
    IF IsNotFound(got.err)
    THEN IF fail = "write"
         THEN Result(NoSecret, TRUE, ErrBackend, secret, "none", FALSE)
         ELSE Result(made, TRUE, Nil, made, "create", FALSE)
    ELSE IF got.err # Nil
    THEN Result(NoSecret, FALSE, got.err, secret, "none", FALSE)
    ELSE IF got.obj.value = required.value
    THEN Result(got.obj, FALSE, Nil, secret, "none", FALSE)
    ELSE IF fail = "write"
    THEN Result(NoSecret, TRUE, ErrBackend, secret, "none", FALSE)
    ELSE Result(made, TRUE, Nil, made, "update", FALSE)

\* oauthsub.ApplyOAuth: update the registration when it differs from the stored one
ApplyOAuth(oauthclient, required, fail) ==
    LET got == Get(oauthclient, NoOAuthClient, fail = "get") IN
    IF got.err # Nil
    THEN Result(NoOAuthClient, FALSE, got.err, oauthclient, "none", FALSE)
    ELSE IF got.obj = required
    THEN Result(got.obj, FALSE, Nil, oauthclient, "none", FALSE)
    ELSE IF fail = "write"
    THEN Result(NoOAuthClient, TRUE, ErrBackend, oauthclient, "none", FALSE)
    ELSE Result(required, TRUE, Nil, required, "update", FALSE)

\* resourceapply.ApplyDeployment with forceRollout = true: always writes
ApplyDeployment(deployment, required, fail) ==
    LET got == Get(deployment, NoDeployment, fail = "get") IN
    IF IsNotFound(got.err)
    THEN IF fail = "write"
         THEN Result(NoDeployment, TRUE, ErrBackend, deployment, "none", FALSE)
         ELSE Result(required, TRUE, Nil, required, "create", FALSE)
    ELSE IF got.err # Nil
    THEN Result(NoDeployment, FALSE, got.err, deployment, "none", FALSE)
    ELSE IF fail = "write"
    THEN Result(NoDeployment, TRUE, ErrBackend, deployment, "none", FALSE)
    ELSE LET toWrite == [required EXCEPT !.forced = TRUE] IN
         Result(toWrite, TRUE, Nil, toWrite, "update", FALSE)

\* ------------------------------------------------------------ the six steps

\* SyncRoute without the wait for Route.Spec.Host
SyncRoute_NoHostCheck(route, consoleConfig, getFail, createFail, allocated) ==
    LET r == GetOrCreate(route, DefaultRoute(consoleConfig), getFail, createFail, allocated) IN
    IF r.err # Nil
    THEN Result(NoRoute, FALSE, r.err, r.store, r.wrote, FALSE)
    ELSE Result(r.obj, r.changed, r.err, r.store, r.wrote, FALSE)

\* SyncRoute that brings a route it found back to what the operator asks for
SyncRoute_AppliesRoute(route, consoleConfig, getFail, createFail, allocated) ==
    LET r == GetOrCreate(route, DefaultRoute(consoleConfig), getFail, createFail, allocated) IN
    IF r.err # Nil
    THEN Result(NoRoute, FALSE, r.err, r.store, r.wrote, FALSE)
    ELSE IF r.wrote = "none" /\ r.obj # DefaultRoute(consoleConfig)
    THEN Result(NoRoute, FALSE, ErrWaitingOnHost, DefaultRoute(consoleConfig), "update", FALSE)
    ELSE IF r.obj.host = ""
    THEN Result(NoRoute, FALSE, ErrWaitingOnHost, r.store, r.wrote, FALSE)
    ELSE Result(r.obj, r.changed, r.err, r.store, r.wrote, FALSE)

\* SyncRoute handing back the route it is still waiting on
SyncRoute_ReturnsRouteWhileWaiting(route, consoleConfig, getFail, createFail, allocated) ==
    LET r == GetOrCreate(route, DefaultRoute(consoleConfig), getFail, createFail, allocated) IN
    IF r.err # Nil
    THEN Result(NoRoute, FALSE, r.err, r.store, r.wrote, FALSE)
    ELSE IF r.obj.host = ""
    THEN Result(r.obj, FALSE, ErrWaitingOnHost, r.store, r.wrote, FALSE)
    ELSE Result(r.obj, r.changed, r.err, r.store, r.wrote, FALSE)

SyncRoute(route, consoleConfig, getFail, createFail, allocated) ==
    LET r == GetOrCreate(route, DefaultRoute(consoleConfig), getFail, createFail, allocated) IN
    IF r.err # Nil
    THEN Result(NoRoute, FALSE, r.err, r.store, r.wrote, FALSE)
    ELSE IF r.obj.host = ""
    THEN Result(NoRoute, FALSE, ErrWaitingOnHost, r.store, r.wrote, FALSE)
    ELSE Result(r.obj, r.changed, r.err, r.store, r.wrote, FALSE)

SyncService(service, consoleConfig, fail) ==
    LET r == ApplyService(service, DefaultService(consoleConfig), fail) IN
    IF r.err # Nil
    THEN Result(NoService, FALSE, r.err, r.store, r.wrote, FALSE)
    ELSE Result(r.obj, r.changed, r.err, r.store, r.wrote, FALSE)

SyncConfigMap(configmap, consoleConfig, rt, fail, rv) ==
    LET r == ApplyConfigMap(configmap, DefaultConfigMap(consoleConfig, rt), fail, rv) IN
    IF r.err # Nil
    THEN Result(NoConfigMap, FALSE, r.err, r.store, r.wrote, FALSE)
    ELSE Result(r.obj, r.changed, r.err, r.store, r.wrote, FALSE)

\* SyncSecret handing the secret it just applied on to the rest of the pass
SyncSecret_GoesOnAfterCreate(secret, consoleConfig, getFail, fail, randomBits, rv) ==
    LET got == Get(secret, NoSecret, getFail) IN
    IF IsNotFound(got.err) \/ GetSecretString(got.obj) = ""
    THEN LET r == ApplySecret(secret, DefaultSecret(consoleConfig, randomBits), fail, rv) IN
         Result(r.obj, r.changed, r.err, r.store, r.wrote, TRUE)
    ELSE IF got.err # Nil
    THEN Result(NoSecret, FALSE, got.err, secret, "none", FALSE)
    ELSE Result(got.obj, FALSE, Nil, secret, "none", FALSE)

\* SyncSecret that deletes a secret it finds empty, for the next pass to make anew
SyncSecret_DeletesEmpty(secret, consoleConfig, getFail, fail, randomBits, rv) ==
    LET got == Get(secret, NoSecret, getFail) IN
    IF got.err = Nil /\ GetSecretString(got.obj) = ""
    THEN Result(NoSecret, TRUE, ErrSecretCreated(Nil), NoSecret, "update", FALSE)
    ELSE IF IsNotFound(got.err) \/ GetSecretString(got.obj) = ""
    THEN LET r == ApplySecret(secret, DefaultSecret(consoleConfig, randomBits), fail, rv) IN
         Result(NoSecret, r.changed, ErrSecretCreated(r.err), r.store, r.wrote, TRUE)
    ELSE IF got.err # Nil
    THEN Result(NoSecret, FALSE, got.err, secret, "none", FALSE)
    ELSE Result(got.obj, FALSE, Nil, secret, "none", FALSE)

SyncSecret(secret, consoleConfig, getFail, fail, randomBits, rv) ==
    LET got == Get(secret, NoSecret, getFail) IN
    IF IsNotFound(got.err) \/ GetSecretString(got.obj) = ""
    THEN LET r == ApplySecret(secret, DefaultSecret(consoleConfig, randomBits), fail, rv) IN
         Result(NoSecret, r.changed, ErrSecretCreated(r.err), r.store, r.wrote, TRUE)
    ELSE IF got.err # Nil
    THEN Result(NoSecret, FALSE, got.err, secret, "none", FALSE)
    ELSE Result(got.obj, FALSE, Nil, secret, "none", FALSE)

\* SyncOAuthClient that finds the client and leaves it as it is
SyncOAuthClient_NoRegister(oauthclient, consoleConfig, sec, rt, getFail, fail) ==
    LET got == Get(oauthclient, NoOAuthClient, getFail) IN
    IF got.err # Nil
    THEN Result(NoOAuthClient, FALSE, ErrNoOAuthClient, oauthclient, "none", FALSE)
    ELSE Result(got.obj, FALSE, Nil, oauthclient, "none", FALSE)

\* SyncOAuthClient that creates the client when it is not found
SyncOAuthClient_CreatesWhenAbsent(oauthclient, consoleConfig, sec, rt, getFail, fail) ==
    LET got == Get(oauthclient, NoOAuthClient, getFail) IN
    IF IsNotFound(got.err)
    THEN LET made == RegisterConsoleToOAuthClient([NoOAuthClient EXCEPT !.exists = TRUE],
                                                  rt, GetSecretString(sec))
         IN Result(made, TRUE, Nil, made, "create", FALSE)
    ELSE IF got.err # Nil
    THEN Result(NoOAuthClient, FALSE, ErrNoOAuthClient, oauthclient, "none", FALSE)
    ELSE LET registered == RegisterConsoleToOAuthClient(got.obj, rt, GetSecretString(sec))
             r == ApplyOAuth(oauthclient, registered, fail)
         IN
         IF r.err # Nil
         THEN Result(NoOAuthClient, FALSE, r.err, r.store, r.wrote, FALSE)
         ELSE Result(r.obj, r.changed, Nil, r.store, r.wrote, FALSE)

SyncOAuthClient(oauthclient, consoleConfig, sec, rt, getFail, fail) ==
    LET got == Get(oauthclient, NoOAuthClient, getFail) IN
    IF got.err # Nil
    THEN Result(NoOAuthClient, FALSE, ErrNoOAuthClient, oauthclient, "none", FALSE)
    ELSE LET registered == RegisterConsoleToOAuthClient(got.obj, rt, GetSecretString(sec))
             r == ApplyOAuth(oauthclient, registered, fail)
         IN
         IF r.err # Nil
         THEN Result(NoOAuthClient, FALSE, r.err, r.store, r.wrote, FALSE)
         ELSE Result(r.obj, r.changed, Nil, r.store, r.wrote, FALSE)

\* SyncDeployment that applies the existing deployment on every pass
SyncDeployment_AlwaysApplies(deployment, consoleConfig, cm, sec, getFail, fail) ==
    LET defaultDeployment == DefaultDeployment(consoleConfig, cm, sec)
        got == Get(deployment, NoDeployment, getFail)
    IN
    IF IsNotFound(got.err)
    THEN LET r == ApplyDeployment(deployment, defaultDeployment, fail) IN
         Result(NoDeployment, r.changed, ErrDeploymentCreated(r.err), r.store, r.wrote, FALSE)
    ELSE IF got.err # Nil
    THEN Result(NoDeployment, FALSE, got.err, deployment, "none", FALSE)
    ELSE LET toUpdate == UpdateResourceVersions(got.obj, cm, sec)
             r == ApplyDeployment(deployment, toUpdate, fail)
         IN
         IF r.err # Nil
         THEN Result(NoDeployment, FALSE, r.err, r.store, r.wrote, FALSE)
         ELSE Result(r.obj, r.changed, Nil, r.store, r.wrote, FALSE)

\* SyncDeployment that never looks at the recorded versions
SyncDeployment_NoRollout(deployment, consoleConfig, cm, sec, getFail, fail) ==
    LET defaultDeployment == DefaultDeployment(consoleConfig, cm, sec)
        got == Get(deployment, NoDeployment, getFail)
    IN
    IF IsNotFound(got.err)
    THEN LET r == ApplyDeployment(deployment, defaultDeployment, fail) IN
         Result(NoDeployment, r.changed, ErrDeploymentCreated(r.err), r.store, r.wrote, FALSE)
    ELSE IF got.err # Nil
    THEN Result(NoDeployment, FALSE, got.err, deployment, "none", FALSE)
    ELSE Result(got.obj, FALSE, Nil, deployment, "none", FALSE)

\* SyncDeployment that applies the deployment it found without recording the
\* versions of the configmap and the secret in it
SyncDeployment_KeepsStaleVersions(deployment, consoleConfig, cm, sec, getFail, fail) ==
    LET defaultDeployment == DefaultDeployment(consoleConfig, cm, sec)
        got == Get(deployment, NoDeployment, getFail)
    IN
    IF IsNotFound(got.err)
    THEN LET r == ApplyDeployment(deployment, defaultDeployment, fail) IN
         Result(NoDeployment, r.changed, ErrDeploymentCreated(r.err), r.store, r.wrote, FALSE)
    ELSE IF got.err # Nil
    THEN Result(NoDeployment, FALSE, got.err, deployment, "none", FALSE)
    ELSE IF ResourceVersionsChanged(got.obj, cm, sec)
    THEN LET r == ApplyDeployment(deployment, got.obj, fail) IN
         IF r.err # Nil
         THEN Result(NoDeployment, FALSE, r.err, r.store, r.wrote, FALSE)
         ELSE Result(r.obj, r.changed, Nil, r.store, r.wrote, FALSE)
    ELSE Result(got.obj, FALSE, Nil, deployment, "none", FALSE)

\* SyncDeployment that rolls out the deployment as the Console resource now
\* asks for it
SyncDeployment_AppliesDefault(deployment, consoleConfig, cm, sec, getFail, fail) ==
    LET defaultDeployment == DefaultDeployment(consoleConfig, cm, sec)
        got == Get(deployment, NoDeployment, getFail)
    IN
    IF IsNotFound(got.err)
    THEN LET r == ApplyDeployment(deployment, defaultDeployment, fail) IN
         Result(NoDeployment, r.changed, ErrDeploymentCreated(r.err), r.store, r.wrote, FALSE)
    ELSE IF got.err # Nil
    THEN Result(NoDeployment, FALSE, got.err, deployment, "none", FALSE)
    ELSE IF ResourceVersionsChanged(got.obj, cm, sec)
    THEN LET r == ApplyDeployment(deployment, defaultDeployment, fail) IN
         IF r.err # Nil
         THEN Result(NoDeployment, FALSE, r.err, r.store, r.wrote, FALSE)
         ELSE Result(r.obj, r.changed, Nil, r.store, r.wrote, FALSE)
    ELSE Result(got.obj, FALSE, Nil, deployment, "none", FALSE)

SyncDeployment(deployment, consoleConfig, cm, sec, getFail, fail) ==
    LET defaultDeployment == DefaultDeployment(consoleConfig, cm, sec)
        got == Get(deployment, NoDeployment, getFail)
    IN
    IF IsNotFound(got.err)
    THEN LET r == ApplyDeployment(deployment, defaultDeployment, fail) IN
         Result(NoDeployment, r.changed, ErrDeploymentCreated(r.err), r.store, r.wrote, FALSE)
    ELSE IF got.err # Nil
    THEN Result(NoDeployment, FALSE, got.err, deployment, "none", FALSE)
    ELSE IF ResourceVersionsChanged(got.obj, cm, sec)
    THEN LET toUpdate == UpdateResourceVersions(got.obj, cm, sec)
             r == ApplyDeployment(deployment, toUpdate, fail)
         IN
         IF r.err # Nil
         THEN Result(NoDeployment, FALSE, r.err, r.store, r.wrote, FALSE)
         ELSE Result(r.obj, r.changed, Nil, r.store, r.wrote, FALSE)
    ELSE Result(got.obj, FALSE, Nil, deployment, "none", FALSE)

\* ------------------------------------------------------------- the status

\* v1alpha1.ConsoleStatus as the API server creates it: nothing set
NoStatus == [DefaultHostName |-> "", OAuthSecret |-> ""]

\* what a nil pointer dereference leaves behind: the process is gone
Panic == [DefaultHostName |-> "panic", OAuthSecret |-> "panic"]

secretAndOauthMatch(secret, client) == GetSecretString(secret) = client.secret

\* setStatus: the value its parameter cs holds when it returns.  cs is
\* passed by value, so this is a copy of the caller's status; rt is
\* dereferenced without a nil check.
setStatus(cs, svc, rt, cm, dep, oa, sec) ==
    IF ~rt.exists THEN Panic
    ELSE [DefaultHostName |-> rt.host,
          OAuthSecret |-> IF secretAndOauthMatch(sec, oa) THEN "valid" ELSE "mismatch"]

\* the end of sync_v400 with the call of setStatus in place and writing
\* through to consoleConfig.Status
StatusUpdate_CallsSetStatus(cs, toUpdate, svc, rt, cm, dep, oa, sec) ==
    IF toUpdate THEN setStatus(cs, svc, rt, cm, dep, oa, sec) ELSE cs

\* consoleConfig.Status after the end of sync_v400: "if toUpdate" holds a
\* log line and a TODO, the call of setStatus is commented out
StatusUpdate(cs, toUpdate, svc, rt, cm, dep, oa, sec) == cs

\* ------------------------------------------------------------------- state

VARIABLES
    route, service, configmap, secret, oauthclient, deployment,  \* the API server's store
    consoleConfig,      \* the Console custom resource: its spec's version
    status,             \* the Console custom resource: its status
    pc,                 \* where the pass of sync_v400 stands
    rt, cm, sec,        \* sync_v400's locals
    toUpdate,           \* sync_v400's toUpdate
    ret,                \* what the last pass returned: (toUpdate, err)
    prev,               \* how the pass before ended, when nothing happened in between
    boot,               \* the passes made since the empty store, while nothing failed
    edits,              \* how often the world outside has touched the store
    secret0,            \* the stored secret when the pass began
    log,                \* one record per step the pass has invoked
    workers,            \* overlapping passes: where each stands in SyncSecret
    persisted           \* overlapping passes: the secret strings the store has held

vars == <<route, service, configmap, secret, oauthclient, deployment, consoleConfig, status,
          pc, rt, cm, sec, toUpdate, ret, prev, boot, edits, secret0, log,
          workers, persisted>>

store == <<route, service, configmap, secret, oauthclient, deployment>>

\* the passes that may overlap: a timer trigger and a watch-event trigger
Workers == {1, 2}

IdleWorker == [pc |-> "idle", bits |-> "", existing |-> NoSecret, err |-> Nil, round |-> 0]

Steps == <<"route", "service", "configmap", "secret", "oauthclient", "deployment">>

NoRet == [changed |-> FALSE, err |-> Err("none", "none")]

\* The bootstrap is followed from the empty store for MaxBoot passes, and only
\* while no call fails and the router's first admission is all that happens
\* between the passes.
BootOff == [on |-> FALSE, passes |-> <<>>]

Created(l) == {l[i].step : i \in {j \in 1..Len(l) : l[j].wrote = "create"}}

Written(l) == {l[i].step : i \in {j \in 1..Len(l) : l[j].wrote # "none"}}

Booted(failed, to, l) ==
    IF ~boot.on \/ failed THEN BootOff
    ELSE IF to.pc # "done" THEN boot
    ELSE [boot EXCEPT !.passes = Append(@, [changed |-> to.ret.changed, err |-> to.ret.err,
                                            created |-> Created(l), written |-> Written(l)])]

Entry(step, r, getFailed) ==
    [step |-> step, err |-> r.err, changed |-> r.changed, wrote |-> r.wrote,
     gen |-> r.gen, getFailed |-> getFailed, nonNil |-> r.obj.exists]

Init ==
    /\ route = NoRoute
    /\ service = NoService
    /\ configmap = NoConfigMap
    /\ secret = NoSecret
    /\ oauthclient \in {NoOAuthClient, [exists |-> TRUE, host |-> "", secret |-> ""]}
    /\ deployment = NoDeployment
    /\ consoleConfig \in Versions
    /\ status = NoStatus
    /\ pc = "idle"
    /\ rt = NoRoute
    /\ cm = NoConfigMap
    /\ sec = NoSecret
    /\ toUpdate = FALSE
    /\ ret = NoRet
    /\ prev = "none"
    /\ boot = [on |-> TRUE, passes |-> <<>>]
    /\ secret0 = NoSecret
    /\ log = <<>>
    /\ edits = 0
    /\ workers = [p \in Workers |-> IdleWorker]
    /\ persisted = {}

\* ---------------------------------------------------------------- one pass

\* sync_v400 without "toUpdate = toUpdate || changed" after a step
sync_v400_DropsChanged(acc, r, next) ==
    IF r.err # Nil
    THEN [pc |-> "done", toUpdate |-> acc, ret |-> [changed |-> acc, err |-> r.err]]
    ELSE IF next = "return"
    THEN [pc |-> "done", toUpdate |-> acc, ret |-> [changed |-> acc, err |-> Nil]]
    ELSE [pc |-> next, toUpdate |-> acc, ret |-> NoRet]

\* sync_v400 without the "if err != nil { return }" after a step
sync_v400_IgnoresError(acc, r, next) ==
    IF next = "return"
    THEN [pc |-> "done", toUpdate |-> acc \/ r.changed,
          ret |-> [changed |-> acc \/ r.changed, err |-> Nil]]
    ELSE [pc |-> next, toUpdate |-> acc \/ r.changed, ret |-> NoRet]

\* What sync_v400 does with a step's result: return on an error, else
\* accumulate the changed flag and go on to the next step (or return).
sync_v400(acc, r, next) ==
    IF r.err # Nil
    THEN [pc |-> "done", toUpdate |-> acc, ret |-> [changed |-> acc, err |-> r.err]]
    ELSE IF next = "return"
    THEN [pc |-> "done", toUpdate |-> acc \/ r.changed,
          ret |-> [changed |-> acc \/ r.changed, err |-> Nil]]
    ELSE [pc |-> next, toUpdate |-> acc \/ r.changed, ret |-> NoRet]

\* sync_v400's locals are gone once it has returned
Keep(to, obj, zero) == IF to.pc = "done" THEN zero ELSE obj

\* the trigger calls sync_v400(co, consoleConfig)
StartPass ==
    /\ pc \in {"idle", "done"}
    /\ pc' = "route"
    /\ toUpdate' = FALSE
    /\ prev' = IF pc # "done" THEN "none" ELSE IF ret.err = Nil THEN "nil" ELSE "err"
    /\ boot' = IF boot.on /\ Len(boot.passes) < MaxBoot THEN boot ELSE BootOff
    /\ ret' = NoRet
    /\ secret0' = secret
    /\ log' = <<>>
    /\ rt' = NoRoute /\ cm' = NoConfigMap /\ sec' = NoSecret
    /\ UNCHANGED <<store, consoleConfig, status, edits, workers, persisted>>

CallSyncRoute ==
    /\ pc = "route"
    /\ \E getFail \in BOOLEAN, createFail \in BOOLEAN, allocated \in Hosts \cup {""} :
        LET r == SyncRoute(route, consoleConfig, getFail, createFail, allocated)
            to == sync_v400(toUpdate, r, "service")
        IN
        /\ route' = r.store
        /\ rt' = Keep(to, r.obj, NoRoute)
        /\ pc' = to.pc /\ toUpdate' = to.toUpdate /\ ret' = to.ret
        /\ log' = Append(log, Entry("route", r, getFail))
        /\ boot' = Booted(getFail \/ createFail, to, log')
    /\ UNCHANGED <<service, configmap, secret, oauthclient, deployment, consoleConfig,
                   cm, sec, prev, edits, secret0, status, workers, persisted>>

CallSyncService ==
    /\ pc = "service"
    /\ \E fail \in ApplyFail :
        LET r == SyncService(service, consoleConfig, fail)
            to == sync_v400(toUpdate, r, "configmap")
        IN
        /\ service' = r.store
        /\ rt' = Keep(to, rt, NoRoute)
        /\ pc' = to.pc /\ toUpdate' = to.toUpdate /\ ret' = to.ret
        /\ log' = Append(log, Entry("service", r, fail = "get"))
        /\ boot' = Booted(fail # "ok", to, log')
    /\ UNCHANGED <<route, configmap, secret, oauthclient, deployment, consoleConfig,
                   cm, sec, prev, edits, secret0, status, workers, persisted>>

CallSyncConfigMap ==
    /\ pc = "configmap"
    /\ \E fail \in ApplyFail :
        LET rv == FreshRV({configmap.rv, deployment.cmVersion})
            r == SyncConfigMap(configmap, consoleConfig, rt, fail, rv)
            to == sync_v400(toUpdate, r, "secret")
        IN
        /\ configmap' = r.store
        /\ cm' = Keep(to, r.obj, NoConfigMap)
        /\ rt' = Keep(to, rt, NoRoute)
        /\ pc' = to.pc /\ toUpdate' = to.toUpdate /\ ret' = to.ret
        /\ log' = Append(log, Entry("configmap", r, fail = "get"))
        /\ boot' = Booted(fail # "ok", to, log')
    /\ UNCHANGED <<route, service, secret, oauthclient, deployment, consoleConfig,
                   sec, prev, edits, secret0, status, workers, persisted>>

CallSyncSecret ==
    /\ pc = "secret"
    /\ \E getFail \in BOOLEAN, fail \in ApplyFail, randomBits \in SecretStrings :
        LET rv == FreshRV({secret.rv, deployment.secVersion})
            r == SyncSecret(secret, consoleConfig, getFail, fail, randomBits, rv)
            to == sync_v400(toUpdate, r, "oauthclient")
        IN
        /\ secret' = r.store
        /\ sec' = Keep(to, r.obj, NoSecret)
        /\ rt' = Keep(to, rt, NoRoute)
        /\ cm' = Keep(to, cm, NoConfigMap)
        /\ pc' = to.pc /\ toUpdate' = to.toUpdate /\ ret' = to.ret
        /\ log' = Append(log, Entry("secret", r, getFail))
        /\ boot' = Booted(getFail \/ fail # "ok", to, log')
    /\ UNCHANGED <<route, service, configmap, oauthclient, deployment, consoleConfig,
                   prev, edits, secret0, status, workers, persisted>>

CallSyncOAuthClient ==
    /\ pc = "oauthclient"
    /\ \E getFail \in BOOLEAN, fail \in ApplyFail :
        LET r == SyncOAuthClient(oauthclient, consoleConfig, sec, rt, getFail, fail)
            to == sync_v400(toUpdate, r, "deployment")
        IN
        /\ oauthclient' = r.store
        /\ rt' = NoRoute
        /\ cm' = Keep(to, cm, NoConfigMap)
        /\ sec' = Keep(to, sec, NoSecret)
        /\ pc' = to.pc /\ toUpdate' = to.toUpdate /\ ret' = to.ret
        /\ log' = Append(log, Entry("oauthclient", r, getFail))
        /\ boot' = Booted(getFail \/ fail # "ok", to, log')
    /\ UNCHANGED <<route, service, configmap, secret, deployment, consoleConfig,
                   prev, edits, secret0, status, workers, persisted>>

CallSyncDeployment ==
    /\ pc = "deployment"
    /\ \E getFail \in BOOLEAN, fail \in ApplyFail :
        LET r == SyncDeployment(deployment, consoleConfig, cm, sec, getFail, fail)
            to == sync_v400(toUpdate, r, "return")
        IN
        /\ deployment' = r.store
        /\ rt' = NoRoute /\ cm' = NoConfigMap /\ sec' = NoSecret
        /\ pc' = to.pc /\ toUpdate' = to.toUpdate /\ ret' = to.ret
        /\ log' = Append(log, Entry("deployment", r, getFail))
        /\ boot' = Booted(getFail \/ fail # "ok", to, log')
        \* a pass that got this far holds the objects the store holds
        /\ status' = IF to.ret.err # Nil THEN status
                      ELSE StatusUpdate(status, to.toUpdate, service, route, cm, r.obj, oauthclient, sec)
    /\ UNCHANGED <<route, service, configmap, secret, oauthclient, consoleConfig,
                   prev, edits, secret0, workers, persisted>>

\* ----------------------------------------------- the world between passes

\* anything outside the operator that touches the store or the Console
\* resource; what the last pass returned no longer describes the store
Forget ==
    /\ edits < MaxEdits
    /\ edits' = edits + 1
    /\ pc' = "idle"
    /\ ret' = NoRet /\ prev' = "none" /\ secret0' = NoSecret /\ log' = <<>>
    /\ toUpdate' = FALSE
    /\ UNCHANGED <<rt, cm, sec, status, workers, persisted>>

\* the router admits the route, or its host is changed
RouteHostSet ==
    /\ pc \in {"idle", "done"}
    /\ route.exists
    /\ \E h \in Hosts \ {route.host} : route' = [route EXCEPT !.host = h]
    /\ Forget
    /\ boot' = IF route.host = "" THEN boot ELSE BootOff
    /\ UNCHANGED <<service, configmap, secret, oauthclient, deployment, consoleConfig>>

\* somebody edits or empties the secret
SecretEdited ==
    /\ pc \in {"idle", "done"}
    /\ secret.exists
    /\ \E v \in (SecretStrings \cup {""}) \ {secret.value} :
         secret' = [secret EXCEPT !.value = v,
                                  !.rv = FreshRV({secret.rv, deployment.secVersion})]
    /\ Forget
    /\ boot' = BootOff
    /\ UNCHANGED <<route, service, configmap, oauthclient, deployment, consoleConfig>>

\* the Console resource's spec is edited
ConsoleConfigEdited ==
    /\ pc \in {"idle", "done"}
    /\ \E v \in Versions \ {consoleConfig} : consoleConfig' = v
    /\ Forget
    /\ boot' = BootOff
    /\ UNCHANGED store

\* an administrator creates the console's OAuth client
OAuthClientCreated ==
    /\ pc \in {"idle", "done"}
    /\ ~oauthclient.exists
    /\ oauthclient' = [exists |-> TRUE, host |-> "", secret |-> ""]
    /\ Forget
    /\ boot' = BootOff
    /\ UNCHANGED <<route, service, configmap, secret, deployment, consoleConfig>>

\* somebody deletes one of the managed resources
ResourceDeleted ==
    /\ pc \in {"idle", "done"}
    /\ \/ route.exists /\ route' = NoRoute
          /\ UNCHANGED <<service, configmap, secret, oauthclient, deployment>>
       \/ service.exists /\ service' = NoService
          /\ UNCHANGED <<route, configmap, secret, oauthclient, deployment>>
       \/ configmap.exists /\ configmap' = NoConfigMap
          /\ UNCHANGED <<route, service, secret, oauthclient, deployment>>
       \/ secret.exists /\ secret' = NoSecret
          /\ UNCHANGED <<route, service, configmap, oauthclient, deployment>>
       \/ oauthclient.exists /\ oauthclient' = NoOAuthClient
          /\ UNCHANGED <<route, service, configmap, secret, deployment>>
       \/ deployment.exists /\ deployment' = NoDeployment
          /\ UNCHANGED <<route, service, configmap, secret, oauthclient>>
    /\ Forget
    /\ boot' = BootOff
    /\ UNCHANGED consoleConfig

Next ==
    \/ StartPass
    \/ CallSyncRoute
    \/ CallSyncService
    \/ CallSyncConfigMap
    \/ CallSyncSecret
    \/ CallSyncOAuthClient
    \/ CallSyncDeployment
    \/ RouteHostSet
    \/ SecretEdited
    \/ ConsoleConfigEdited
    \/ OAuthClientCreated
    \/ ResourceDeleted

Spec == Init /\ [][Next]_vars

\* ------------------------------------------------------ overlapping passes
\* Two triggers may call sync_v400 at the same time.  The passes meet in the
\* store; what follows is SyncSecret, call by call on the API server, for
\* each of them.  The steps before it do not touch the secret, and the pass
\* returns right after ApplySecret.  The API server fails no call here.

\* How many passes each trigger starts.
MaxRounds == 2

\* Create on a name that is taken
ErrAlreadyExists == Err("alreadyexists", "nil")

\* Update with a resource version that is no longer the stored one
ErrConflict == Err("conflict", "nil")

\* what the sequential pass holds
seq == <<route, service, configmap, oauthclient, deployment, consoleConfig, status,
         pc, rt, cm, sec, toUpdate, ret, prev, boot, edits, secret0, log>>

Worker(pc_, bits, existing, err, round) ==
    [pc |-> pc_, bits |-> bits, existing |-> existing, err |-> err, round |-> round]

\* the pass returns at the secret step with err, or goes on with the secret
\* it found (err = Nil)
Returned(w, err) == Worker("done", w.bits, NoSecret, err, w.round)

\* SyncSecret's get and the test that follows: not found or an empty secret
\* string leads into ApplySecret with freshly generated bits
SecretGet(p) ==
    LET w == workers[p]
        got == Get(secret, NoSecret, FALSE)
    IN
    /\ w.pc \in {"idle", "done"}
    /\ w.round < MaxRounds
    /\ IF IsNotFound(got.err) \/ GetSecretString(got.obj) = ""
       THEN \E randomBits \in SecretStrings :
              workers' = [workers EXCEPT ![p] =
                             Worker("ApplySecret", randomBits, NoSecret, Nil, w.round + 1)]
       ELSE workers' = [workers EXCEPT ![p] = Worker("done", "", NoSecret, Nil, w.round + 1)]
    /\ UNCHANGED <<secret, persisted, seq>>

\* resourceapply.ApplySecret: its own get
ApplySecretGet(p) ==
    LET w == workers[p]
        got == Get(secret, NoSecret, FALSE)
    IN
    /\ w.pc = "ApplySecret"
    /\ workers' = [workers EXCEPT ![p] =
          IF IsNotFound(got.err) THEN [w EXCEPT !.pc = "Create"]
          ELSE IF got.obj.value = w.bits THEN Returned(w, ErrSecretCreated(Nil))
          ELSE [w EXCEPT !.pc = "Update", !.existing = got.obj]]
    /\ UNCHANGED <<secret, persisted, seq>>

\* resourceapply.ApplySecret: the create after a get that found nothing
ApplySecretCreate(p) ==
    LET w == workers[p]
        rv == FreshRV({secret.rv} \cup {workers[q].existing.rv : q \in Workers})
    IN
    /\ w.pc = "Create"
    /\ IF secret.exists
       THEN /\ workers' = [workers EXCEPT ![p] = Returned(w, ErrSecretCreated(ErrAlreadyExists))]
            /\ UNCHANGED <<secret, persisted>>
       ELSE /\ secret' = [exists |-> TRUE, value |-> w.bits, rv |-> rv]
            /\ persisted' = persisted \cup {w.bits}
            /\ workers' = [workers EXCEPT ![p] = Returned(w, ErrSecretCreated(Nil))]
    /\ UNCHANGED seq

\* resourceapply.ApplySecret: the update of the secret its get found, which
\* the server takes only at the resource version that get saw
ApplySecretUpdate(p) ==
    LET w == workers[p]
        rv == FreshRV({secret.rv} \cup {workers[q].existing.rv : q \in Workers \ {p}})
    IN
    /\ w.pc = "Update"
    /\ IF secret.rv # w.existing.rv
       THEN /\ workers' = [workers EXCEPT ![p] = Returned(w, ErrSecretCreated(ErrConflict))]
            /\ UNCHANGED <<secret, persisted>>
       ELSE /\ secret' = [exists |-> TRUE, value |-> w.bits, rv |-> rv]
            /\ persisted' = persisted \cup {w.bits}
            /\ workers' = [workers EXCEPT ![p] = Returned(w, ErrSecretCreated(Nil))]
    /\ UNCHANGED seq

InitConc ==
    /\ route = NoRoute
    /\ service = NoService
    /\ configmap = NoConfigMap
    /\ secret \in {NoSecret} \cup {[exists |-> TRUE, value |-> v, rv |-> 1] : v \in SecretStrings \cup {""}}
    /\ oauthclient = NoOAuthClient
    /\ deployment = NoDeployment
    /\ consoleConfig \in Versions
    /\ status = NoStatus
    /\ pc = "idle"
    /\ rt = NoRoute
    /\ cm = NoConfigMap
    /\ sec = NoSecret
    /\ toUpdate = FALSE
    /\ ret = NoRet
    /\ prev = "none"
    /\ boot = BootOff
    /\ secret0 = NoSecret
    /\ log = <<>>
    /\ edits = 0
    /\ workers = [p \in Workers |-> IdleWorker]
    /\ persisted = {secret.value} \ {""}

NextConc ==
    \E p \in Workers :
        \/ SecretGet(p)
        \/ ApplySecretGet(p)
        \/ ApplySecretCreate(p)
        \/ ApplySecretUpdate(p)

SpecConc == InitConc /\ [][NextConc]_vars

\* ------------------------------------------------- repeated passes, no faults
\* The trigger calls sync_v400 again and again, one pass at a time; the API
\* server fails no call; the OAuth client is there; the Console resource is
\* not edited; nothing is deleted; the router admits a route that has no
\* host yet.

\* the call just made met no failure of the API server
FailureFree ==
    LET e == log'[Len(log')] IN
    ~e.getFailed /\ e.err.kind # "backend" /\ e.err.cause # "backend"

\* the next call of the pass under way, answered by the API server
PassStepOk ==
    /\ \/ CallSyncRoute
       \/ CallSyncService
       \/ CallSyncConfigMap
       \/ CallSyncSecret
       \/ CallSyncOAuthClient
       \/ CallSyncDeployment
    /\ FailureFree

\* the router gives a route without a host its host
RouteAdmitted == route.host = "" /\ RouteHostSet

\* any store the operator may be started on
InitFair ==
    /\ route \in {NoRoute, [exists |-> TRUE, host |-> ""], [exists |-> TRUE, host |-> "h1"]}
    /\ service \in {NoService} \cup {[exists |-> TRUE, version |-> v] : v \in Versions}
    /\ configmap \in {NoConfigMap,
                      [exists |-> TRUE, version |-> "4.0", host |-> "h1", rv |-> 1],
                      [exists |-> TRUE, version |-> "4.1", host |-> "h2", rv |-> 2]}
    /\ secret \in {NoSecret} \cup {[exists |-> TRUE, value |-> v, rv |-> 1] : v \in {"", "s1"}}
    /\ oauthclient \in {[exists |-> TRUE, host |-> "", secret |-> ""],
                        [exists |-> TRUE, host |-> "h1", secret |-> "s1"],
                        [exists |-> TRUE, host |-> "h2", secret |-> "s2"]}
    /\ deployment \in {NoDeployment,
                       [exists |-> TRUE, version |-> "4.0", cmVersion |-> 1, secVersion |-> 1, forced |-> FALSE],
                       [exists |-> TRUE, version |-> "4.1", cmVersion |-> 2, secVersion |-> 2, forced |-> TRUE]}
    /\ consoleConfig = "4.0"
    /\ status = NoStatus
    /\ pc = "idle"
    /\ rt = NoRoute
    /\ cm = NoConfigMap
    /\ sec = NoSecret
    /\ toUpdate = FALSE
    /\ ret = NoRet
    /\ prev = "none"
    /\ boot = BootOff
    /\ secret0 = NoSecret
    /\ log = <<>>
    /\ edits = 0
    /\ workers = [p \in Workers |-> IdleWorker]
    /\ persisted = {}

NextFair ==
    \/ StartPass
    \/ PassStepOk
    \/ RouteAdmitted

\* The trigger keeps starting passes, a pass under way goes on to its return,
\* and the router does its part some time between two passes.
SpecFair ==
    /\ InitFair
    /\ [][NextFair]_vars
    /\ WF_vars(StartPass)
    /\ WF_vars(PassStepOk)
    /\ SF_vars(RouteAdmitted)

\* ------------------------------------------------------------------ claims

\* C1: in every pass, a step that returns an error or creates its resource
\* for the first time is the last step invoked in that pass.
C1_StopsAfterErrorOrCreate ==
    \A k \in 1..Len(log) : (log[k].err # Nil \/ log[k].wrote = "create") => k = Len(log)

\* C2: the changed flag a pass returns is true whenever a resource was
\* created or updated during the pass, the stopping step's own write included.
C2_ChangedCoversEveryWrite ==
    pc = "done" => (Written(log) # {} => ret.changed)

\* C3: a pass that starts with a stored, non-empty Secret never generates a
\* secret, never applies the Secret, and leaves the stored Secret as it was.
C3_CredentialImmutable ==
    (pc # "idle" /\ secret0.exists /\ secret0.value # "") =>
        /\ secret = secret0
        /\ \A k \in 1..Len(log) : ~log[k].gen /\ (log[k].step = "secret" => log[k].wrote = "none")

Pass(i) == boot.passes[i]

\* passes 1..i that got past the Route step
Stage(i) == Cardinality({j \in 1..i : Pass(j).err # ErrWaitingOnHost})

C6_RolloutPropagation ==
    [][(/\ pc = "deployment"
        /\ deployment.exists
        /\ (deployment.cmVersion # configmap.rv \/ deployment.secVersion # secret.rv)
        /\ pc' = "done"
        /\ ret'.err # ErrBackend)
       => (/\ deployment'.cmVersion = configmap.rv
           /\ deployment'.secVersion = secret.rv
           /\ log'[Len(log')].changed
           /\ ret'.changed
           /\ ret'.err = Nil)]_vars

\* the Route's host changed, the pass rewrote the ConfigMap and then the Deployment
C6_Witness ==
    /\ pc = "done" /\ Len(log) = 6
    /\ log[3].wrote = "update" /\ log[4].wrote = "none"
    /\ log[6].wrote = "update" /\ log[6].changed
    /\ deployment.version = consoleConfig
    /\ deployment.cmVersion = configmap.rv

\* C7: after a pass that returned err = nil, the OAuth client carries the
\* Route's host and the stored Secret's value, and the Deployment records the
\* current versions of the ConfigMap and the Secret.
C7_AgreementAfterCompletePass ==
    (pc = "done" /\ ret.err = Nil) =>
        /\ oauthclient.exists /\ route.exists /\ secret.exists
        /\ oauthclient.host = route.host
        /\ oauthclient.secret = secret.value
        /\ deployment.exists /\ configmap.exists
        /\ deployment.cmVersion = configmap.rv
        /\ deployment.secVersion = secret.rv

\* a complete pass that had to rewrite the OAuth client
C7_Witness ==
    pc = "done" /\ ret.err = Nil /\ log[5].wrote = "update" /\ oauthclient.secret \in SecretStrings

\* C9: a pass whose Route is absent or has no host after the Route step
\* stops there with an error; the steps after it hold a Route with a host;
\* no ConfigMap and no OAuth client is written from an empty host.
C9_HostGating ==
    /\ (Len(log) >= 1 /\ (~route.exists \/ route.host = "")) =>
           Len(log) = 1 /\ pc = "done" /\ ret.err # Nil
    /\ pc \in {"service", "configmap", "secret", "oauthclient"} =>
           rt.exists /\ rt.host # ""
    /\ configmap.exists => configmap.host # ""
    /\ \A k \in 1..Len(log) :
           (log[k].step = "oauthclient" /\ log[k].wrote # "none") => oauthclient.host # ""

\* the Route is there, its host is not: the pass stopped at the Route step
C9_Witness ==
    /\ pc = "done" /\ Len(log) = 1
    /\ route.exists /\ route.host = "" /\ log[1].wrote = "none"
    /\ ret.err = ErrWaitingOnHost

\* C10: a pass that finds the Secret absent or empty at the Secret step
\* generates a secret, persists it unless the API server fails the write, and
\* stops there with an error; the OAuth client and Deployment steps only ever
\* run with a non-empty Secret in hand.
C10_CredentialBeforeConsumers ==
    /\ (Len(log) >= 4 /\ (~secret0.exists \/ secret0.value = "")) =>
           /\ log[4].gen
           /\ Len(log) = 4 /\ pc = "done" /\ ret.err # Nil
           /\ log[4].err = ErrSecretCreated(Nil) =>
                  secret.exists /\ secret.value \in SecretStrings /\ log[4].wrote # "none"
    /\ pc \in {"oauthclient", "deployment"} => sec.exists /\ sec.value # ""
    /\ \A k \in 1..Len(log) :
           (log[k].step \in {"oauthclient", "deployment"} /\ log[k].wrote # "none") =>
               /\ secret.exists /\ secret.value # ""
               /\ log[k].step = "oauthclient" => oauthclient.secret = secret.value
               /\ log[k].step = "deployment" => deployment.secVersion = secret.rv

\* somebody emptied the Secret; the pass wrote a new one and stopped
C10_Witness ==
    /\ pc = "done" /\ Len(log) = 4
    /\ secret0.exists /\ secret0.value = ""
    /\ log[4].wrote = "update" /\ secret.value \in SecretStrings
    /\ deployment.exists

\* C8: when a step's get fails with an error other than not-found, the step
\* writes nothing, no later step runs, and the pass returns that same error.
C8_GetErrorPropagatedVerbatim ==
    \A k \in 1..Len(log) :
        log[k].getFailed =>
            /\ log[k].wrote = "none"
            /\ k = Len(log) /\ pc = "done"
            /\ ret.err = ErrBackend

\* ---- C11: the missing OAuth client

\* a step of a pass, as opposed to a step of the world outside
InPass == pc \notin {"idle", "done"}

\* C11: when the OAuth client is absent as the OAuth step runs, the step
\* creates nothing, the pass returns an error there and then (the Deployment
\* step is not invoked); and no step of any pass brings the OAuth client into
\* being, nor the Deployment while the OAuth client is absent.
C11_MissingOAuthClientIsFatal ==
    [][/\ (pc = "oauthclient" /\ ~oauthclient.exists) =>
            /\ oauthclient' = oauthclient
            /\ deployment' = deployment
            /\ pc' = "done"
            /\ ret'.err = ErrNoOAuthClient
            /\ Len(log') = 5
       /\ (InPass /\ ~oauthclient.exists) =>
            /\ ~oauthclient'.exists
            /\ (~deployment.exists => ~deployment'.exists)]_vars

C11_Witness ==
    /\ pc = "done" /\ Len(log) = 5 /\ ~log[5].getFailed
    /\ ~oauthclient.exists /\ ~deployment.exists
    /\ ret.err = ErrNoOAuthClient
    /\ sec.exists = FALSE /\ secret.exists /\ route.host # ""

\* ---- C12: the status of a partial pass

\* setStatus has run on this status
Projected(cs) == cs.OAuthSecret \in {"valid", "mismatch"}

\* C12: every pass that has returned has produced a status, whatever its
\* outcome; a pass the Route step stopped as not ready has produced one with
\* an empty default host.
C12_StatusForEveryPass ==
    pc = "done" =>
        /\ Projected(status)
        /\ (ret.err = ErrWaitingOnHost => status.DefaultHostName = "")

\* ---- C13: overlapping passes and the credential

\* C13: whatever the interleaving of two passes, the store has held at most
\* one non-empty secret string (none is ever replaced by another), and a pass
\* that generated a string the store does not hold returned an error.
C13_CredentialNotCorrupted ==
    /\ Cardinality(persisted) <= 1
    /\ \A p \in Workers :
         (workers[p].pc = "done" /\ workers[p].bits \notin {"", secret.value}) =>
             workers[p].err # Nil

\* ---- C14: the route's host

\* C14: no step of a pass updates or deletes a route that exists; its host
\* is after the pass what it was before.
C14_ExistingRouteUntouched ==
    [][(InPass /\ route.exists) => route' = route]_vars

C14_Witness ==
    /\ pc = "done" /\ Len(log) = 6 /\ ret.changed
    /\ log[1].wrote = "none" /\ ~log[1].getFailed
    /\ route.exists /\ route.host # ""

\* ---- C15: the Console resource handed to a pass

PrefixOfSteps == Len(log) <= Len(Steps) /\ \A k \in 1..Len(log) : log[k].step = Steps[k]

\* C16: the steps a pass has invoked are a prefix of Route, Service,
\* ConfigMap, Secret, OAuthClient, Deployment; a pass under way has invoked
\* fewer than six and stands at the step after that prefix; every step it
\* takes is one more invocation and leads to the next position or to the
\* return, so a pass returns after six steps at most; it returns at its first
\* error, and with err = nil only after six steps without an error.
C16_TerminatesInFixedOrder ==
    /\ [](/\ PrefixOfSteps
          /\ InPass => (Len(log) < Len(Steps) /\ pc = Steps[Len(log) + 1])
          /\ pc = "done" =>
               /\ Len(log) >= 1
               /\ \A k \in 1..(Len(log) - 1) : log[k].err = Nil
               /\ ret.err = log[Len(log)].err
               /\ (ret.err = Nil => Len(log) = Len(Steps)))
    /\ [][InPass => /\ Len(log') = Len(log) + 1
                    /\ pc' = "done" \/ (Len(log') < Len(Steps) /\ pc' = Steps[Len(log') + 1])]_vars

C16_Witness ==
    /\ pc = "done" /\ Len(log) = 6 /\ ret.err = Nil /\ ~ret.changed
    /\ \A k \in 1..6 : log[k].step = Steps[k] /\ log[k].err = Nil

\* ---- C17: convergence

\* C17: with passes repeated, no failure of the API server, the OAuth client
\* present, the Console resource left alone and the router admitting the
\* route, some pass returns err = nil, and every pass that follows a pass
\* that returned err = nil returns err = nil and changed = false.
C17_Convergence ==
    /\ <>(pc = "done" /\ ret.err = Nil)
    /\ []((pc = "done" /\ prev = "nil") => (ret.err = Nil /\ ~ret.changed))
    /\ []<>(pc = "done" /\ prev = "nil")

\* the pass after the one that created the Deployment
C17_Witness ==
    /\ pc = "done" /\ prev = "err" /\ ret.err = Nil /\ Len(log) = 6
    /\ edits = 1 /\ deployment.version = consoleConfig

\* ---- C18: what the Deployment step writes

\* the Deployment step has found the deployment recording the versions of the
\* configmap and the secret the pass holds
Convergent == pc = "deployment" /\ deployment.exists /\ ~ResourceVersionsChanged(deployment, cm, sec)

Divergent == pc = "deployment" /\ deployment.exists /\ ResourceVersionsChanged(deployment, cm, sec)

\* the stored deployment with the two versions brought up to date
Remarked == [deployment EXCEPT !.cmVersion = cm.rv, !.secVersion = sec.rv]

\* whatever the Console resource asks for, a convergent deployment is left
\* as it is, and the step reports no change and, its get answered, no error
LeavesConvergent ==
    Convergent =>
        /\ deployment' = deployment
        /\ log'[Len(log')].wrote = "none" /\ ~log'[Len(log')].changed /\ ret'.changed = toUpdate
        /\ (~log'[Len(log')].getFailed => ret'.err = Nil)

\* C18 as claimed: a convergent deployment is left as it is; the update of a
\* divergent one changes the two recorded versions and nothing else.
C18_WritesOnlyTheVersions ==
    [][LeavesConvergent /\ (Divergent => deployment' \in {deployment, Remarked})]_vars

\* C18 as amended: a convergent deployment is left as it is; the update of a
\* divergent one changes the two recorded versions and marks the deployment
\* for a forced rollout, and nothing else.
C18_WritesVersionsAndForcesRollout ==
    [][LeavesConvergent
       /\ (Divergent => deployment' \in {deployment, [Remarked EXCEPT !.forced = TRUE]})]_vars

\* a deployment of another version than the Console resource asks for, rolled
\* out again without being brought to that version
C18_Witness ==
    /\ pc = "done" /\ Len(log) = 6 /\ log[6].wrote = "update" /\ ret.err = Nil
    /\ deployment.version # consoleConfig /\ deployment.forced
    /\ deployment.cmVersion = configmap.rv /\ deployment.secVersion = secret.rv

\* ---- C19: resource or error, never both and never neither

\* C19: every step invoked returned a resource exactly when it returned no
\* error; so the ConfigMap step is called with a Route, the OAuth client
\* step with a Secret (its Route went through the steps before), and the
\* Deployment step with a ConfigMap and a Secret.
C19_ResourceIffNoError ==
    /\ \A k \in 1..Len(log) : log[k].nonNil <=> (log[k].err = Nil)
    /\ pc \in {"service", "configmap", "secret", "oauthclient"} => rt.exists
    /\ pc \in {"secret", "oauthclient", "deployment"} => cm.exists
    /\ pc \in {"oauthclient", "deployment"} => sec.exists

\* the Route step came back waiting on the host, with no route in hand
C19_Witness ==
    /\ pc = "done" /\ Len(log) = 1
    /\ log[1].err = ErrWaitingOnHost /\ ~log[1].nonNil /\ log[1].wrote = "create"
    /\ route.exists /\ ~rt.exists

\* ---- C20: nothing is deleted

\* the managed resources the store holds
Existing ==
    {n \in DOMAIN Steps : store[n].exists}

====
